---- MODULE Spec2Model ----
(***************************************************************************)
(* Model of the threaded web spider of spider.py: the control thread of    *)
(* Spider.spider(), the worker threads that run Spider._processPage (and   *)
(* Spider._get inside it), the shared SpiderResults (graph, visited,       *)
(* _urls) and the two locks connectLock and graphLock.                     *)
(*                                                                         *)
(* The external collaborators are modelled by their visible behaviour:     *)
(* urllib2.urlopen returns a response or raises, lxml yields the link      *)
(* occurrences of a page in document order, and ThreadPool is a FIFO task  *)
(* queue served by a fixed number of worker threads whose wait_completion  *)
(* returns once every submitted task has finished.                         *)
(***************************************************************************)
EXTENDS Integers, Sequences, FiniteSets, TLC

\* ---------------------------------------------------------------- bounds
MaxDepth == 3        \* maxDepth ranges over 1..MaxDepth
MaxThreads == 2      \* threads ranges over 1..MaxThreads

\* ------------------------------------------------------------- constants
NoOne == 0           \* a lock nobody holds
None == "None"       \* Python's None

Workers == 1..MaxThreads

URLs == {"r", "a", "b", "c"}
root == "r"

ErrorKinds == {"URLError", "timeout"}

\* A content-type header is the pair <<mime type, parameters>>, the two
\* sides of the first ';' of the header text; None when the header is absent.
Html == <<"text/html", "">>
HtmlUtf8 == <<"text/html", "charset=utf-8">>
Png == <<"image/png", "">>
EmptyHeader == <<"", "">>   \* contentType = '' of a failed fetch
NoHeader == <<>>            \* getheader('content-type') returned None

H(u) == <<"href", u>>
S(u) == <<"src", u>>

\* ----------------------------------------------------------------- sites
\* A site fixes what the network and the parser return for every URL:
\*   links   the link occurrences <<attribute, absolute url>> of the page,
\*           in document order (html.iterlinks() after make_links_absolute)
\*   ctype   the content-type header of the response
\*   final   response.geturl(), differing from the URL when redirected
\*   parses  FALSE when lxml yields no root element for the body
\*   flaky   the URLs whose urlopen may raise
\*   raising the callbacks that may raise
AllHtml == [u \in URLs |-> Html]
NoRedirect == [u \in URLs |-> u]
AllParse == [u \in URLs |-> TRUE]

\* the seed repeats a link; the two children link to each other, and one
\* of them alone to a third page
SiteDup ==
    [links |-> [r |-> <<H("a"), H("b"), H("a")>>, a |-> <<H("b"), H("r")>>,
                b |-> <<H("a"), H("c")>>, c |-> <<>>],
     ctype |-> AllHtml, final |-> NoRedirect, parses |-> AllParse,
     flaky |-> URLs, raising |-> {}]

\* two pages of one level share a child; a child links back to a sibling
SiteShared ==
    [links |-> [r |-> <<H("a"), H("b")>>, a |-> <<H("c")>>,
                b |-> <<H("a"), H("c")>>, c |-> <<H("r")>>],
     ctype |-> [AllHtml EXCEPT !["c"] = HtmlUtf8],
     final |-> NoRedirect, parses |-> AllParse,
     flaky |-> URLs, raising |-> {}]

\* an image that a sibling links to, a page without a root element,
\* a redirect and a link that is not an href
SiteMixed ==
    [links |-> [r |-> <<H("a"), S("c"), H("b"), H("c")>>, a |-> <<H("b")>>,
                b |-> <<H("a"), H("r")>>, c |-> <<H("a")>>],
     ctype |-> [AllHtml EXCEPT !["a"] = Png],
     final |-> [NoRedirect EXCEPT !["r"] = "a"],
     parses |-> [AllParse EXCEPT !["c"] = FALSE],
     flaky |-> {}, raising |-> {}]

\* a chain through two siblings to a response without the header, and
\* callbacks that may raise
SiteRaising ==
    [links |-> [r |-> <<H("a"), H("b")>>, a |-> <<H("b")>>,
                b |-> <<H("c")>>, c |-> <<>>],
     ctype |-> [AllHtml EXCEPT !["c"] = NoHeader], final |-> NoRedirect, parses |-> AllParse,
     flaky |-> {}, raising |-> {"response", "html", "link"}]

Sites == {SiteDup, SiteShared, SiteMixed, SiteRaising}

\* --------------------------------------------------------------- helpers
Contains(s, x) == \E i \in 1..Len(s) : s[i] = x

Count(s, x) == Cardinality({i \in 1..Len(s) : s[i] = x})

NoDuplicates(s) == \A i, j \in 1..Len(s) : s[i] = s[j] => i = j

Put(f, k, v) == [x \in (DOMAIN f) \cup {k} |-> IF x = k THEN v ELSE f[x]]

RECURSIVE SumOver(_, _)
SumOver(f, D) ==
    IF D = {} THEN 0
    ELSE LET x == CHOOSE y \in D : TRUE IN f[x] + SumOver(f, D \ {x})

\* the choices a callback has: return, or raise when it is a raising one
Raises(site_, cb) == IF cb \in site_.raising THEN {FALSE, TRUE} ELSE {FALSE}

\* ------------------------------------------------------- pure functions
\* the locals of a worker that runs no task
NoTask == [url |-> None, level |-> 0]
NoResponse == [dead |-> FALSE, exc |-> None, ctype |-> NoHeader, final |-> None]

mime(ctype) == ctype[1]

ishtml(ctype) == mime(ctype) \in {"text/html"}

\* the response of urlopen, or the exception class it raised
Outcomes(site_, url) ==
    {[dead |-> FALSE, exc |-> None, ctype |-> site_.ctype[url],
      final |-> site_.final[url]]}
    \cup
    (IF url \in site_.flaky
     THEN {[dead |-> TRUE, exc |-> e, ctype |-> EmptyHeader, final |-> url] :
             e \in ErrorKinds}
     ELSE {})

\* variant: the counter is not carried over
NextTimesReset(v, url) == 1

NextTimes(v, url) == IF url \in DOMAIN v THEN v[url].times + 1 ELSE 1

VisitRecord(v, url, out) ==
    [redirected |-> ~(url = out.final),
     redirectUrl |-> out.final,
     contentType |-> out.ctype,
     dead |-> out.dead,
     exc |-> out.exc,
     times |-> NextTimes(v, url)]

\* variant: the key is created whatever the outcome
AddGraphKeyAlways(g, url, isDead) ==
    IF ~(url \in DOMAIN g) THEN Put(g, url, <<>>) ELSE g

AddGraphKey(g, url, isDead) ==
    IF ~isDead /\ ~(url \in DOMAIN g) THEN Put(g, url, <<>>) ELSE g

\* variant: the adjacency list of the page is not consulted
AcceptNoAdjacencyTest(link, url, us, v, g) ==
    /\ link[1] = "href"
    /\ ~Contains(us, link[2])
    /\ ~(link[2] \in DOMAIN v)

\* variant: the frontier is not consulted
AcceptNoFrontierTest(link, url, us, v, g) ==
    /\ link[1] = "href"
    /\ ~(link[2] \in DOMAIN v)
    /\ ~Contains(g[url], link[2])

Accept(link, url, us, v, g) ==
    /\ link[1] = "href"
    /\ ~Contains(us, link[2])
    /\ ~(link[2] \in DOMAIN v)
    /\ ~Contains(g[url], link[2])

\* variant: one level too many
LoopCondInclusive(d, m) == d <= m

LoopCond(d, m) == d < m

LockFree(lock) == lock = NoOne

\* ----------------------------------------------------------------- state
VARIABLES
    site,        \* what the network serves (fixed during a crawl)
    maxDepth,    \* Spider.maxDepth
    threads,     \* Spider.threads
    graph,       \* results.graph: url -> sequence of urls
    visited,     \* results.visited: url -> visit record
    urls,        \* results._urls: the frontier deque
    connectLock, \* owner of Spider.connectLock, NoOne when free
    graphLock,   \* owner of Spider.graphLock, NoOne when free
    queue,       \* tasks submitted to the pool and not yet taken
    cpc,         \* position of the control thread in spider()
    depth,       \* local depth of spider()
    remaining,   \* iterations left of the drain loop
    wpc,         \* position of each worker
    wtask,       \* the task a worker runs: [url, level]
    wresp,       \* local outcome of urlopen in _get
    widx,        \* position of the link loop in the page's link list
    waccept,     \* outcome of the discovery test of the current link
    wbase,       \* history: len(graph[url]) when the link loop started
    fetches,     \* history: number of urlopen calls per url
    failures,    \* history: number of urlopen calls that raised, per url
    levelCb,     \* history: arguments of levelCallback, in order
    respCb,      \* history: number of responseCallback calls per url
    htmlCb,      \* history: number of htmlCallback calls per url
    linkCb,      \* history: number of linkCallback calls per <<page, link>>
    submitted,   \* history: tasks handed to add_task, in order
    finished     \* history: tasks whose link loop ran to its end

results == <<graph, visited, urls>>
locks == <<connectLock, graphLock>>
config == <<site, maxDepth, threads>>
control == <<cpc, depth, remaining>>
locals == <<wtask, wresp, widx, waccept, wbase>>
workerv == <<wpc, locals>>
callbacks == <<respCb, htmlCb, linkCb>>
attempts == <<fetches, failures>>
history == <<attempts, levelCb, callbacks, submitted, finished>>
vars == <<config, results, locks, queue, control, workerv, history>>

Init ==
    /\ site \in Sites
    /\ maxDepth \in 1..MaxDepth
    /\ threads \in 1..MaxThreads
    /\ graph = <<>>
    /\ visited = <<>>
    /\ urls = <<>>
    /\ connectLock = NoOne
    /\ graphLock = NoOne
    /\ queue = <<>>
    /\ cpc = "start"
    /\ depth = 0
    /\ remaining = 0
    /\ wpc = [w \in Workers |-> "idle"]
    /\ wtask = [w \in Workers |-> NoTask]
    /\ wresp = [w \in Workers |-> NoResponse]
    /\ widx = [w \in Workers |-> 0]
    /\ waccept = [w \in Workers |-> FALSE]
    /\ wbase = [w \in Workers |-> 0]
    /\ fetches = [u \in URLs |-> 0]
    /\ failures = [u \in URLs |-> 0]
    /\ levelCb = <<>>
    /\ respCb = [u \in URLs |-> 0]
    /\ htmlCb = [u \in URLs |-> 0]
    /\ linkCb = [p \in URLs \X URLs |-> 0]
    /\ submitted = <<>>
    /\ finished = {}

\* ------------------------------------------------------------- the pool
\* wait_completion returns when no task is queued or running
PoolIdle == queue = <<>> /\ \A w \in Workers : wpc[w] = "idle"

Task(url, level) == [url |-> url, level |-> level]

Goto(w, pc) == wpc' = [wpc EXCEPT ![w] = pc]

\* a worker thread takes the next task and calls _processPage(url, results)
WorkerTake(w) ==
    /\ w <= threads
    /\ wpc[w] = "idle"
    /\ queue # <<>>
    /\ wtask' = [wtask EXCEPT ![w] = Head(queue)]
    /\ queue' = Tail(queue)
    /\ Goto(w, "get_acquire")
    /\ UNCHANGED <<config, results, locks, control, wresp, widx, waccept,
                   wbase, history>>

\* the unit of work of worker w ends (return or exception): task_done
EndTask(w) ==
    /\ Goto(w, "idle")
    /\ wtask' = [wtask EXCEPT ![w] = NoTask]
    /\ wresp' = [wresp EXCEPT ![w] = NoResponse]
    /\ widx' = [widx EXCEPT ![w] = 0]
    /\ waccept' = [waccept EXCEPT ![w] = FALSE]
    /\ wbase' = [wbase EXCEPT ![w] = 0]

\* ----------------------------------------------------------------- _get
\* variant: the fetch is entered without waiting for the connection lock
GetAcquireNoLock(w) ==
    /\ wpc[w] = "get_acquire"
    /\ connectLock' = w
    /\ Goto(w, "urlopen")
    /\ UNCHANGED <<config, results, graphLock, queue, control, locals,
                   history>>

\* self.connectLock.acquire()
GetAcquire(w) ==
    /\ wpc[w] = "get_acquire"
    /\ LockFree(connectLock)
    /\ connectLock' = w
    /\ Goto(w, "urlopen")
    /\ UNCHANGED <<config, results, graphLock, queue, control, locals,
                   history>>

\* try: response = urllib2.urlopen(...) ... except: isDead = True ...
GetUrlopen(w) ==
    /\ wpc[w] = "urlopen"
    /\ \E out \in Outcomes(site, wtask[w].url) :
           /\ wresp' = [wresp EXCEPT ![w] = out]
           /\ failures' = [failures EXCEPT ![wtask[w].url] =
                              IF out.dead THEN @ + 1 ELSE @]
    /\ fetches' = [fetches EXCEPT ![wtask[w].url] = @ + 1]
    /\ Goto(w, "record")
    /\ UNCHANGED <<config, results, locks, queue, control, wtask, widx,
                   waccept, wbase, levelCb, callbacks, submitted, finished>>

\* finally: the visit record of url is written
GetRecord(w) ==
    /\ wpc[w] = "record"
    /\ visited' = Put(visited, wtask[w].url,
                      VisitRecord(visited, wtask[w].url, wresp[w]))
    /\ Goto(w, "graph_acquire")
    /\ UNCHANGED <<config, graph, urls, locks, queue, control, locals,
                   history>>

\* self.graphLock.acquire()
GetGraphAcquire(w) ==
    /\ wpc[w] = "graph_acquire"
    /\ LockFree(graphLock)
    /\ graphLock' = w
    /\ Goto(w, "graph_key")
    /\ UNCHANGED <<config, results, connectLock, queue, control, locals,
                   history>>

\* if not isDead and not url in results.graph: ...; graphLock.release()
GetGraphKey(w) ==
    /\ wpc[w] = "graph_key"
    /\ graph' = AddGraphKey(graph, wtask[w].url, wresp[w].dead)
    /\ graphLock' = NoOne
    /\ Goto(w, "connect_release")
    /\ UNCHANGED <<config, visited, urls, connectLock, queue, control,
                   locals, history>>

\* variant: a failed fetch is processed like a response
ResponseIsNoneNever(resp) == FALSE

\* _get returned None
ResponseIsNone(resp) == resp.dead

\* variant: the release is not in the finally, a failed fetch keeps the lock
GetReleaseNotInFinally(w) ==
    /\ wpc[w] = "connect_release"
    /\ IF ResponseIsNone(wresp[w])
       THEN EndTask(w) /\ UNCHANGED connectLock
       ELSE /\ connectLock' = NoOne
            /\ Goto(w, "response_cb")
            /\ UNCHANGED locals
    /\ UNCHANGED <<config, results, graphLock, queue, control, history>>

\* self.connectLock.release(); return response;
\* back in _processPage: if response is None: return
GetRelease(w) ==
    /\ wpc[w] = "connect_release"
    /\ connectLock' = NoOne
    /\ IF ResponseIsNone(wresp[w])
       THEN EndTask(w)
       ELSE Goto(w, "response_cb") /\ UNCHANGED locals
    /\ UNCHANGED <<config, results, graphLock, queue, control, history>>

\* --------------------------------------------------------- _processPage
\* responseCallback(url, response); ishtml(response); parse
ProcessResponse(w) ==
    /\ wpc[w] = "response_cb"
    /\ respCb' = [respCb EXCEPT ![wtask[w].url] = @ + 1]
    /\ \E raised \in Raises(site, "response") :
          IF \/ raised
             \/ wresp[w].ctype = NoHeader   \* mime() raises
             \/ ~ishtml(wresp[w].ctype)
             \/ ~site.parses[wtask[w].url]  \* html is None
          THEN EndTask(w)
          ELSE Goto(w, "html_cb") /\ UNCHANGED locals
    /\ UNCHANGED <<config, results, locks, queue, control, attempts, levelCb,
                   htmlCb, linkCb, submitted, finished>>

\* htmlCallback(url, html); the link loop starts
ProcessHtml(w) ==
    /\ wpc[w] = "html_cb"
    /\ htmlCb' = [htmlCb EXCEPT ![wtask[w].url] = @ + 1]
    /\ \E raised \in Raises(site, "html") :
          IF raised
          THEN EndTask(w)
          ELSE /\ Goto(w, "link_next")
               /\ widx' = [widx EXCEPT ![w] = 1]
               /\ wbase' = [wbase EXCEPT ![w] = Len(graph[wtask[w].url])]
               /\ UNCHANGED <<wtask, wresp, waccept>>
    /\ UNCHANGED <<config, results, locks, queue, control, attempts, levelCb,
                   respCb, linkCb, submitted, finished>>

PageLinks(w) == site.links[wtask[w].url]

\* next link of the loop: graphLock.acquire() and the discovery test
LinkAcquire(w) ==
    /\ wpc[w] = "link_next"
    /\ widx[w] <= Len(PageLinks(w))
    /\ LockFree(graphLock)
    /\ graphLock' = w
    /\ waccept' = [waccept EXCEPT ![w] =
                     Accept(PageLinks(w)[widx[w]], wtask[w].url, urls,
                            visited, graph)]
    /\ Goto(w, "link_body")
    /\ UNCHANGED <<config, results, connectLock, queue, control, wtask,
                   wresp, widx, wbase, history>>

\* variant: without the finally, a raising linkCallback keeps the lock
LinkBodyNoFinally(w) ==
    /\ wpc[w] = "link_body"
    /\ LET link == PageLinks(w)[widx[w]][2]
           url == wtask[w].url
       IN IF waccept[w]
          THEN /\ urls' = Append(urls, link)
               /\ graph' = [graph EXCEPT ![url] = Append(@, link)]
               /\ linkCb' = [linkCb EXCEPT ![<<url, link>>] = @ + 1]
               /\ \E raised \in Raises(site, "link") :
                     IF raised
                     THEN EndTask(w) /\ UNCHANGED graphLock
                     ELSE /\ Goto(w, "link_next")
                          /\ graphLock' = NoOne
                          /\ widx' = [widx EXCEPT ![w] = @ + 1]
                          /\ waccept' = [waccept EXCEPT ![w] = FALSE]
                          /\ UNCHANGED <<wtask, wresp, wbase>>
          ELSE /\ Goto(w, "link_next")
               /\ graphLock' = NoOne
               /\ widx' = [widx EXCEPT ![w] = @ + 1]
               /\ UNCHANGED <<urls, graph, linkCb, wtask, wresp, waccept,
                              wbase>>
    /\ UNCHANGED <<config, visited, connectLock, queue, control, attempts,
                   levelCb, respCb, htmlCb, submitted, finished>>

\* the body of the if, then finally: graphLock.release()
LinkBody(w) ==
    /\ wpc[w] = "link_body"
    /\ graphLock' = NoOne
    /\ LET link == PageLinks(w)[widx[w]][2]
           url == wtask[w].url
       IN IF waccept[w]
          THEN /\ urls' = Append(urls, link)
               /\ graph' = [graph EXCEPT ![url] = Append(@, link)]
               /\ linkCb' = [linkCb EXCEPT ![<<url, link>>] = @ + 1]
               /\ \E raised \in Raises(site, "link") :
                     IF raised
                     THEN EndTask(w)
                     ELSE /\ Goto(w, "link_next")
                          /\ widx' = [widx EXCEPT ![w] = @ + 1]
                          /\ waccept' = [waccept EXCEPT ![w] = FALSE]
                          /\ UNCHANGED <<wtask, wresp, wbase>>
          ELSE /\ Goto(w, "link_next")
               /\ widx' = [widx EXCEPT ![w] = @ + 1]
               /\ UNCHANGED <<urls, graph, linkCb, wtask, wresp, waccept,
                              wbase>>
    /\ UNCHANGED <<config, visited, connectLock, queue, control, attempts,
                   levelCb, respCb, htmlCb, submitted, finished>>

\* the link loop is exhausted: _processPage returns
LinkDone(w) ==
    /\ wpc[w] = "link_next"
    /\ widx[w] > Len(PageLinks(w))
    /\ finished' = finished \cup {wtask[w]}
    /\ EndTask(w)
    /\ UNCHANGED <<config, results, locks, queue, control, attempts, levelCb,
                   callbacks, submitted>>

\* --------------------------------------------------------------- spider
AfterLevel(d) == IF LoopCond(d, maxDepth) THEN "wait" ELSE "final_wait"

\* variant: the level counter starts at zero
SpiderStartDepthZero ==
    /\ cpc = "start"
    /\ levelCb' = Append(levelCb, 1)
    /\ queue' = Append(queue, Task(root, 1))
    /\ submitted' = Append(submitted, Task(root, 1))
    /\ depth' = 0
    /\ cpc' = AfterLevel(0)
    /\ UNCHANGED <<config, results, locks, remaining, workerv, attempts,
                   callbacks, finished>>

\* levelCallback(1); add_task(_processPage, self.url, results); depth = 1
SpiderStart ==
    /\ cpc = "start"
    /\ levelCb' = Append(levelCb, 1)
    /\ queue' = Append(queue, Task(root, 1))
    /\ submitted' = Append(submitted, Task(root, 1))
    /\ depth' = 1
    /\ cpc' = AfterLevel(1)
    /\ UNCHANGED <<config, results, locks, remaining, workerv, attempts,
                   callbacks, finished>>

\* variant: the level is drained without waiting for the pool
SpiderWaitNoBarrier ==
    /\ cpc = "wait"
    /\ levelCb' = Append(levelCb, depth + 1)
    /\ remaining' = Len(urls)
    /\ cpc' = "drain"
    /\ UNCHANGED <<config, results, locks, queue, depth, workerv, attempts,
                   callbacks, submitted, finished>>

\* variant: the callback gets the level that has just ended
SpiderWaitStaleLevel ==
    /\ cpc = "wait"
    /\ PoolIdle
    /\ levelCb' = Append(levelCb, depth)
    /\ remaining' = Len(urls)
    /\ cpc' = "drain"
    /\ UNCHANGED <<config, results, locks, queue, depth, workerv, attempts,
                   callbacks, submitted, finished>>

\* wait_completion(); levelCallback(depth + 1); range(len(results._urls))
SpiderWait ==
    /\ cpc = "wait"
    /\ PoolIdle
    /\ levelCb' = Append(levelCb, depth + 1)
    /\ remaining' = Len(urls)
    /\ cpc' = "drain"
    /\ UNCHANGED <<config, results, locks, queue, depth, workerv, attempts,
                   callbacks, submitted, finished>>

\* url = results._urls.popleft(); add_task(_processPage, url, results)
SpiderDrain ==
    /\ cpc = "drain"
    /\ remaining > 0
    /\ urls # <<>>
    /\ urls' = Tail(urls)
    /\ queue' = Append(queue, Task(Head(urls), depth + 1))
    /\ submitted' = Append(submitted, Task(Head(urls), depth + 1))
    /\ remaining' = remaining - 1
    /\ UNCHANGED <<config, graph, visited, locks, cpc, depth, workerv,
                   attempts, levelCb, callbacks, finished>>

\* depth += 1 and the loop test
SpiderNextLevel ==
    /\ cpc = "drain"
    /\ remaining = 0
    /\ depth' = depth + 1
    /\ cpc' = AfterLevel(depth + 1)
    /\ UNCHANGED <<config, results, locks, queue, remaining, workerv,
                   history>>

\* variant: the results are returned without the final wait
SpiderFinishNoWait ==
    /\ cpc = "final_wait"
    /\ cpc' = "done"
    /\ UNCHANGED <<config, results, locks, queue, depth, remaining, workerv,
                   history>>

\* the final wait_completion(); return results
SpiderFinish ==
    /\ cpc = "final_wait"
    /\ PoolIdle
    /\ cpc' = "done"
    /\ UNCHANGED <<config, results, locks, queue, depth, remaining, workerv,
                   history>>

\* ------------------------------------------------------------------ spec
WorkerStep(w) ==
    \/ WorkerTake(w)
    \/ GetAcquire(w)
    \/ GetUrlopen(w)
    \/ GetRecord(w)
    \/ GetGraphAcquire(w)
    \/ GetGraphKey(w)
    \/ GetRelease(w)
    \/ ProcessResponse(w)
    \/ ProcessHtml(w)
    \/ LinkAcquire(w)
    \/ LinkBody(w)
    \/ LinkDone(w)

ControlStep ==
    \/ SpiderStart
    \/ SpiderWait
    \/ SpiderDrain
    \/ SpiderNextLevel
    \/ SpiderFinish

Next ==
    \/ ControlStep
    \/ \E w \in Workers : WorkerStep(w)

Spec == Init /\ [][Next]_vars

\* threads are scheduled fairly and every urlopen returns
Fairness ==
    /\ WF_vars(ControlStep)
    /\ \A w \in Workers : WF_vars(WorkerStep(w))

FairSpec == Spec /\ Fairness

TypeOK ==
    /\ cpc \in {"start", "wait", "drain", "final_wait", "done"}
    /\ depth \in 0..MaxDepth
    /\ connectLock \in {NoOne} \cup Workers
    /\ graphLock \in {NoOne} \cup Workers
    /\ DOMAIN graph \subseteq URLs
    /\ DOMAIN visited \subseteq URLs

\* ---------------------------------------------------------------- claims
\* the tasks queued in the pool or running on a worker
InFlight ==
    {queue[i] : i \in 1..Len(queue)}
    \cup {wtask[w] : w \in {x \in Workers : wpc[x] # "idle"}}

TotalFetches == SumOver(fetches, URLs)

\* C1: BFS level barrier. While a unit of work of level d is queued or
\* running (its fetch or its link loop unfinished), nothing of a later level
\* has been submitted to the pool.
C1_LevelBarrier ==
    \A t \in InFlight : \A i \in 1..Len(submitted) :
        submitted[i].level <= t.level

\* level 3 work is in flight after level 2 pages have run their link loops
C1_Witness ==
    /\ \E t \in InFlight : t.level = 3
    /\ \E f \in finished : f.level = 2

\* C2: fetch-once, as claimed: no URL is passed to urlopen more than once
\* and no counter exceeds 1.
C2_FetchOnce ==
    \A u \in URLs :
        /\ fetches[u] <= 1
        /\ u \in DOMAIN visited => visited[u].times <= 1

\* C3: shared child discovery, as claimed: when two pages P and Q of the
\* level in progress have both run their link loops and both hold an href to
\* a URL X that was never fetched nor submitted, X is in the frontier once
\* and in both adjacency lists.
C3_SharedChild ==
    \A P, Q, X \in URLs : \A L \in 1..MaxDepth :
        ( /\ P # Q
          /\ depth = L
          /\ Task(P, L) \in finished
          /\ Task(Q, L) \in finished
          /\ Contains(site.links[P], H(X))
          /\ Contains(site.links[Q], H(X))
          /\ fetches[X] = 0
          /\ \A i \in 1..Len(submitted) : submitted[i].url # X )
        => /\ Count(urls, X) = 1
           /\ Contains(graph[P], X)
           /\ Contains(graph[Q], X)

FetchSection ==
    {"urlopen", "record", "graph_acquire", "graph_key", "connect_release"}

\* C4: fetch mutual exclusion. At most one worker is inside the fetch
\* section of _get; a worker is inside it exactly while it holds the
\* connection lock, so the lock is held throughout and is released when _get
\* returns, after a success and after a failure.
C4_FetchMutex ==
    /\ Cardinality({w \in Workers : wpc[w] \in FetchSection}) <= 1
    /\ \A w \in Workers : (wpc[w] \in FetchSection) <=> (connectLock = w)

\* a failed fetch is about to release the lock another worker waits for
C4_Witness ==
    \E w1, w2 \in Workers :
        /\ wpc[w1] = "connect_release"
        /\ wresp[w1].dead
        /\ wpc[w2] = "get_acquire"

\* the fetch attempts of u whose visit record has been written
Completed(u) ==
    fetches[u] - Cardinality({w \in Workers :
                                wpc[w] = "record" /\ wtask[w].url = u})

\* C5: attempt counting. u is a key of visited iff a fetch of u has
\* completed, and visited[u].times is the number of completed attempts.
C5_AttemptCount ==
    \A u \in URLs :
        /\ (u \in DOMAIN visited) <=> (Completed(u) >= 1)
        /\ u \in DOMAIN visited =>
              /\ visited[u].times = Completed(u)
              /\ visited[u].times >= 1

\* a URL was fetched twice, once failing, while another fetch is under way
C5_Witness ==
    \E u \in DOMAIN visited :
        /\ visited[u].times = 2
        /\ \E w \in Workers : wpc[w] = "record" /\ wtask[w].url # u

InLinkLoop(w) == wpc[w] \in {"link_next", "link_body"}

\* what the running link loop of w has appended to graph[url] so far
AppendedNow(w) ==
    SubSeq(graph[wtask[w].url], wbase[w] + 1, Len(graph[wtask[w].url]))

\* C6: idempotent discovery. No adjacency list holds a URL twice,
\* linkCallback has been invoked once per adjacency entry, a link loop
\* appends its accepted targets in document order, and a seed whose href
\* links are A, B, A ends with graph[root] = <<A, B>> and two invocations.
C6_IdempotentDiscovery ==
    /\ \A u \in URLs : \A t \in URLs :
          IF u \in DOMAIN graph
          THEN NoDuplicates(graph[u]) /\ linkCb[<<u, t>>] = Count(graph[u], t)
          ELSE linkCb[<<u, t>>] = 0
    /\ \A w \in Workers : InLinkLoop(w) =>
          \A i, j \in 1..Len(AppendedNow(w)) : i < j =>
             \E p, q \in 1..(widx[w] - 1) :
                /\ p < q
                /\ PageLinks(w)[p] = H(AppendedNow(w)[i])
                /\ PageLinks(w)[q] = H(AppendedNow(w)[j])
    /\ \A A, B \in URLs \ {root} :
          ( /\ A # B
            /\ site.links[root] = <<H(A), H(B), H(A)>>
            /\ Task(root, 1) \in finished )
          => /\ graph[root] = <<A, B>>
             /\ SumOver([t \in URLs |-> linkCb[<<root, t>>]], URLs) = 2

\* the seed A, B, A was processed and some page was processed at two levels
C6_Witness ==
    /\ Len(site.links[root]) = 3
    /\ root \in DOMAIN graph
    /\ graph[root] = <<"a", "b">>
    /\ \E u \in URLs : Task(u, 2) \in finished /\ Task(u, 3) \in finished

\* C7: frontier uniqueness. The frontier never holds a URL twice, and the
\* URL a drain step pops is not in the frontier after the pop.
C7_FrontierUnique ==
    /\ [](NoDuplicates(urls))
    /\ [][(cpc = "drain" /\ Len(submitted') > Len(submitted))
          => ~Contains(urls', submitted'[Len(submitted')].url)]_vars

\* a worker finds in the frontier the link another running page put there
C7_Witness ==
    \E w1, w2 \in Workers :
        /\ w1 # w2
        /\ wpc[w1] = "link_body"
        /\ ~waccept[w1]
        /\ PageLinks(w1)[widx[w1]][1] = "href"
        /\ Contains(urls, PageLinks(w1)[widx[w1]][2])
        /\ InLinkLoop(w2)
        /\ Contains(AppendedNow(w2), PageLinks(w1)[widx[w1]][2])

SeedFailed == root \in DOMAIN visited /\ visited[root].dead

SeedFailureState ==
    SeedFailed =>
        /\ graph = <<>>
        /\ urls = <<>>
        /\ DOMAIN visited = {root}
        /\ visited[root].times = 1
        /\ visited[root].exc \in ErrorKinds
        /\ \A w \in Workers :
              (wpc[w] \in FetchSection /\ wtask[w].url = root)
              => visited[root].exc = wresp[w].exc
        /\ TotalFetches = 1
        /\ Len(submitted) = 1
        /\ levelCb = [i \in 1..Len(levelCb) |-> i]
        /\ cpc = "done" => Len(levelCb) = maxDepth

\* C8: seed failure. Once the fetch of the seed has failed, visited holds
\* the single record of the seed (dead, the exception raised, times 1), graph
\* and frontier are empty, nothing else is fetched or submitted,
\* levelCallback has run for 1..maxDepth when spider() returns, and spider()
\* does return.
C8_SeedFailure ==
    /\ []SeedFailureState
    /\ SeedFailed ~> (cpc = "done")

\* spider() returned after three levels with a dead seed
C8_Witness == SeedFailed /\ cpc = "done" /\ maxDepth = 3

\* a step of worker w in a unit of work whose fetch failed
FailedStep(w) == wpc[w] # wpc'[w] /\ (wresp[w].dead \/ wresp'[w].dead)

\* C9: failure isolation. The steps of a unit of work whose fetch failed
\* change nothing but the visit record of its URL (dead, the exception,
\* times), invoke no callback, never enter the processing part of
\* _processPage, leave the queued tasks alone and end holding no lock.
C9_FailureIsolation ==
    [][\A w \in Workers : FailedStep(w) =>
          /\ graph' = graph
          /\ urls' = urls
          /\ callbacks' = callbacks
          /\ queue' = queue
          /\ \A u \in URLs \ {wtask[w].url} :
                /\ (u \in DOMAIN visited') <=> (u \in DOMAIN visited)
                /\ u \in DOMAIN visited => visited'[u] = visited[u]
          /\ wpc[w] = "record" =>
                /\ visited'[wtask[w].url].dead
                /\ visited'[wtask[w].url].exc = wresp[w].exc
                /\ visited'[wtask[w].url].times = fetches[wtask[w].url]
          /\ wpc'[w] \in FetchSection \cup {"idle"}
          /\ wpc'[w] = "idle" => (connectLock' # w /\ graphLock' # w)
      ]_vars

\* a level-2 fetch failed and a page of level 3 was processed afterwards
C9_Witness ==
    /\ \E u \in DOMAIN visited :
          /\ visited[u].dead
          /\ fetches[u] = 1
          /\ \E i \in 1..Len(submitted) : submitted[i] = Task(u, 2)
    /\ \E f \in finished : f.level = 3

\* C10: depth limit of one. With maxDepth = 1 only the seed is fetched,
\* levelCallback runs with 1 only, the drain loop is never entered, and on
\* return the frontier holds exactly the links recorded in graph[root].
C10_DepthOne ==
    (maxDepth = 1) =>
        /\ TotalFetches = fetches[root]
        /\ fetches[root] <= 1
        /\ Len(submitted) <= 1
        /\ levelCb \in {<<>>, <<1>>}
        /\ cpc \in {"start", "final_wait", "done"}
        /\ cpc = "done" =>
              /\ fetches[root] = 1
              /\ levelCb = <<1>>
              /\ root \in DOMAIN graph => urls = graph[root]

\* the crawl of depth one returned with two links left in the frontier
C10_Witness == maxDepth = 1 /\ cpc = "done" /\ Len(urls) = 2

\* a response that arrived and whose mime type is not text/html
NonHtmlResponse(resp) ==
    /\ ~resp.dead
    /\ resp.final # None
    /\ (resp.ctype = NoHeader \/ resp.ctype[1] # "text/html")

\* a step of worker w, after urlopen, in a unit of work that got such a one
NonHtmlStep(w) ==
    /\ wpc[w] # wpc'[w]
    /\ wpc[w] \notin {"idle", "get_acquire", "urlopen"}
    /\ NonHtmlResponse(wresp[w])

\* The effect of one unit of work of a URL u whose fetch succeeded with a
\* content type other than text/html: it records dead = FALSE and that
\* content type, leaves the frontier and every adjacency list alone, makes
\* one responseCallback call and ends there without any htmlCallback or
\* linkCallback call; when it ends graph[u] exists and is empty.
NonHtmlUnitEffect ==
    [][\A w \in Workers : NonHtmlStep(w) =>
          LET u == wtask[w].url IN
          /\ urls' = urls
          /\ htmlCb' = htmlCb
          /\ linkCb' = linkCb
          /\ \A v \in DOMAIN graph : v \in DOMAIN graph' /\ graph'[v] = graph[v]
          /\ DOMAIN graph' \subseteq DOMAIN graph \cup {u}
          /\ wpc[w] = "record" =>
                /\ ~visited'[u].dead
                /\ visited'[u].contentType = wresp[w].ctype
          /\ respCb' = IF wpc[w] = "response_cb"
                       THEN [respCb EXCEPT ![u] = @ + 1]
                       ELSE respCb
          /\ wpc[w] = "response_cb" => wpc'[w] = "idle"
          /\ wpc'[w] \notin {"html_cb", "link_next", "link_body"}
          /\ wpc'[w] = "idle" =>
                /\ u \in DOMAIN graph'
                /\ graph'[u] = <<>>
                /\ ~visited'[u].dead
                /\ visited'[u].contentType = wresp[w].ctype
      ]_vars

\* C11: non-HTML page, as claimed: once a URL u whose fetch succeeded with
\* a content type other than text/html has been processed, graph[u] is the
\* empty list, visited[u] is not dead and holds the content type,
\* responseCallback has been invoked once for u, and htmlCallback and
\* linkCallback not at all.
C11_NonHtmlPage ==
    \A u \in URLs :
        ( /\ u \in DOMAIN visited
          /\ ~visited[u].dead
          /\ visited[u].contentType # NoHeader =>
                mime(visited[u].contentType) # "text/html"
          /\ \A w \in Workers : wtask[w].url # u )
        => /\ u \in DOMAIN graph
           /\ graph[u] = <<>>
           /\ visited[u].contentType = site.ctype[u]
           /\ respCb[u] = 1
           /\ htmlCb[u] = 0
           /\ \A t \in URLs : linkCb[<<u, t>>] = 0

\* the URLs within k href links of the seed
RECURSIVE Reach(_, _)
Reach(site_, k) ==
    IF k = 0 THEN {root}
    ELSE LET R == Reach(site_, k - 1)
         IN R \cup {u \in URLs : \E p \in R : Contains(site_.links[p], H(u))}

\* the number of units of work submitted for u
SubmittedFor(u) ==
    Cardinality({i \in 1..Len(submitted) : submitted[i].url = u})

DepthBoundState ==
    /\ \A i \in 1..Len(submitted) :
          /\ submitted[i].level \in 1..maxDepth
          /\ submitted[i].url \in Reach(site, submitted[i].level - 1)
    /\ \A u \in URLs : fetches[u] <= SubmittedFor(u)
    /\ DOMAIN graph \subseteq DOMAIN visited
    /\ \A u \in DOMAIN visited :
          fetches[u] >= 1 /\ u \in Reach(site, maxDepth - 1)
    /\ Cardinality(DOMAIN graph) <= Cardinality(Reach(site, maxDepth - 1))
    /\ \A u \in URLs \ Reach(site, maxDepth - 1) : fetches[u] = 0

\* C12: depth bound. Every key of graph and of visited is within
\* maxDepth - 1 href links of the seed, so len(graph) is at most the number
\* of such URLs; every unit of work of level L is for a URL within L - 1
\* links; nothing is submitted once the pages of level maxDepth run, so what
\* they put into the frontier is never fetched.
C12_DepthBound ==
    /\ []DepthBoundState
    /\ [][depth = maxDepth => /\ submitted' = submitted
                              /\ \A u \in URLs :
                                    SubmittedFor(u) = 0 => fetches'[u] = 0]_vars

\* a crawl of depth two returned with every URL one link away fetched and
\* the URL two links away left in the frontier, never fetched
C12_Witness ==
    /\ maxDepth = 2
    /\ cpc = "done"
    /\ Contains(urls, "c")
    /\ fetches["c"] = 0
    /\ ~("c" \in Reach(site, 1))
    /\ Cardinality(DOMAIN graph) = Cardinality(Reach(site, 1))

\* where a worker holds the graph lock
GraphSection == {"graph_key", "link_body"}

\* the unit of work of w ends with this step
UnitEnds(w) == wpc[w] # "idle" /\ wpc'[w] = "idle"

\* C13: lock release on callback failure. The graph lock is held exactly
\* by a worker between an acquire and the release that follows it; a unit of
\* work that ends, by a return, a failed fetch or an exception of any
\* callback (linkCallback under the graph lock included), holds no lock
\* afterwards, so an idle worker never owns a lock others wait for.
C13_LockRelease ==
    /\ [](\A w \in Workers :
            /\ (graphLock = w) <=> (wpc[w] \in GraphSection)
            /\ wpc[w] = "idle" => (graphLock # w /\ connectLock # w))
    /\ [][\A w \in Workers : UnitEnds(w) =>
             /\ graphLock' # w
             /\ connectLock' # w
             /\ wpc[w] = "link_body" => (graphLock = w /\ graphLock' = NoOne)
             /\ wpc[w] = "connect_release" =>
                   (connectLock = w /\ connectLock' = NoOne)]_vars

\* the link loop of page a ended in a raising linkCallback, and afterwards
\* the worker of its sibling b got the graph lock
C13_Witness ==
    /\ "link" \in site.raising
    /\ fetches["a"] = 1
    /\ linkCb[<<"a", "b">>] = 1
    /\ ~(\E f \in finished : f.url = "a")
    /\ \A w \in Workers : wtask[w].url # "a"
    /\ \E w \in Workers :
          /\ wtask[w] = Task("b", 2)
          /\ graphLock = w
          /\ wpc[w] = "link_body"

\* worker w, or the control thread, takes this step
WorkerActs(w) == wpc'[w] # wpc[w]
ControlActs == control' # control

\* C14: graph-lock discipline, as claimed: a step that writes graph or the
\* frontier or changes visited, or that reads the frontier for the drain, is
\* taken by a thread that holds the graph lock; the control thread never
\* holds it.
C14_GraphLockDiscipline ==
    [][/\ \A w \in Workers :
             (WorkerActs(w) /\ results' # results) => graphLock = w
       /\ ControlActs => (results' = results /\ cpc # "wait")]_vars

\* C15: termination. With threads scheduled fairly and every urlopen
\* returning, spider() reaches its return for every site, depth, thread
\* count and choice of fetch outcomes, and before the return some thread can
\* always take a step: the two locks and the idle wait never block each
\* other.
C15_Termination ==
    /\ <>(cpc = "done")
    /\ [](cpc # "done" => ENABLED Next)

\* spider() returned from a crawl of three levels on two threads in which a
\* fetch failed and pages of the last level were processed
C15_Witness ==
    /\ cpc = "done"
    /\ maxDepth = 3
    /\ threads = 2
    /\ \E u \in URLs : failures[u] >= 1
    /\ \E f \in finished : f.level = 3

\* C16: quiescent result. When spider() has returned no unit of work is
\* queued or running and no lock is held, and from then on graph, visited
\* and the frontier do not change.
C16_QuiescentResult ==
    /\ [](cpc = "done" => (PoolIdle /\ LockFree(connectLock)
                                    /\ LockFree(graphLock)))
    /\ [][cpc = "done" => results' = results]_vars
    /\ [][cpc' = "done" => (PoolIdle /\ results' = results)]_vars

\* spider() returned right after the pages of the last level, which left
\* links in the frontier, had been processed
C16_Witness ==
    /\ cpc = "done"
    /\ maxDepth = 2
    /\ \E f \in finished : f.level = 2
    /\ urls # <<>>
    /\ Cardinality(DOMAIN graph) >= 2

\* C17: level callback sequence. levelCallback is invoked with 1, 2, ...
\* in this order, maxDepth times in all when spider() returns; a unit of
\* work of level d is submitted only after the invocation for d, and the
\* invocation for d > 1 is made when the pool is idle, so every unit of work
\* still queued or running belongs to the last level announced.
C17_LevelCallbacks ==
    /\ [](/\ levelCb = [i \in 1..Len(levelCb) |-> i]
          /\ Len(levelCb) <= maxDepth
          /\ cpc = "done" => Len(levelCb) = maxDepth
          /\ \A i \in 1..Len(submitted) : submitted[i].level <= Len(levelCb)
          /\ \A t \in InFlight : t.level = Len(levelCb))
    /\ [][levelCb' # levelCb =>
             /\ levelCb' = Append(levelCb, Len(levelCb) + 1)
             /\ submitted = <<>> \/ (submitted' = submitted /\ PoolIdle)]_vars

\* the crawl returned after three invocations and units of work of level 3
C17_Witness ==
    /\ cpc = "done"
    /\ levelCb = <<1, 2, 3>>
    /\ \E i \in 1..Len(submitted) : submitted[i].level = 3

\* the URLs submitted for level L, in the order of submission
RECURSIVE UrlsOfLevel(_, _)
UrlsOfLevel(seq, L) ==
    IF seq = <<>> THEN <<>>
    ELSE IF Head(seq).level = L
         THEN <<Head(seq).url>> \o UrlsOfLevel(Tail(seq), L)
         ELSE UrlsOfLevel(Tail(seq), L)

\* what the drain loop has submitted so far, then what it has yet to pop
DrainView == UrlsOfLevel(submitted, depth + 1) \o SubSeq(urls, 1, remaining)

\* The drain submits the frontier as it stood when the pool became idle, in
\* its order and nothing else: at the idle moment the view is the whole
\* frontier, no step of any thread changes it while the loop runs, and the
\* loop ends with nothing left of it to pop.
FifoSnapshotDrain ==
    /\ [][(cpc = "wait" /\ cpc' = "drain") =>
             (PoolIdle /\ DrainView' = urls /\ urls' = urls)]_vars
    /\ [][(cpc = "drain" /\ cpc' = "drain") => DrainView' = DrainView]_vars
    /\ [][(cpc = "drain" /\ cpc' # "drain") =>
             (remaining = 0 /\ submitted' = submitted)]_vars
    /\ [][submitted' # submitted => (cpc = "start" \/ cpc = "drain")]_vars

\* C18: full FIFO drain, as claimed: what is submitted for the next level is
\* the frontier of the idle moment in its order and nothing else, the
\* frontier is empty after the last pop of the drain loop, and the frontier
\* does not grow while the loop has pops left.
C18_FullFifoDrain ==
    /\ FifoSnapshotDrain
    /\ [][(cpc = "drain" /\ remaining = 1 /\ remaining' = 0) =>
             urls' = <<>>]_vars
    /\ [][(cpc = "drain" /\ remaining > 0) => Len(urls') <= Len(urls)]_vars

\* the visit record of p says its fetch succeeded with an HTML body
FetchedAsHtml(p) ==
    /\ p \in DOMAIN visited
    /\ ~visited[p].dead
    /\ visited[p].contentType # NoHeader
    /\ ishtml(visited[p].contentType)

\* the URLs within k href links of the seed along pages fetched as HTML
RECURSIVE Covered(_)
Covered(k) ==
    IF k = 0 THEN {root}
    ELSE LET R == Covered(k - 1)
         IN R \cup {u \in URLs : \E p \in R :
                        FetchedAsHtml(p) /\ Contains(site.links[p], H(u))}

\* C19: coverage, as claimed: when no callback raises and every page
\* parses, on return of spider() every URL within maxDepth - 1 href links of
\* the seed along pages whose fetch succeeded as HTML has a visit record.
C19_Coverage ==
    ( /\ cpc = "done"
      /\ site.raising = {}
      /\ \A u \in URLs : site.parses[u] )
    => Covered(maxDepth - 1) \subseteq DOMAIN visited

\* C20: graph/visited agreement, as claimed: while no worker is in the
\* fetch section, every key of graph is a key of visited, and a URL with a
\* visit record is a key of graph exactly when the record is not dead.
C20_GraphVisitedAgree ==
    (\A w \in Workers : wpc[w] \notin FetchSection) =>
        /\ DOMAIN graph \subseteq DOMAIN visited
        /\ \A u \in DOMAIN visited : (u \in DOMAIN graph) <=> ~visited[u].dead
====
